---- MODULE Spec2Model ----
(***************************************************************************)
(* Monte Carlo VaR convergence script, both variants:                      *)
(*   "multi"  = src/monte-carlo-analysis/monte_carlo_var.py                *)
(*              (num_trials trials per sample size, averaged)              *)
(*   "single" = src/monte_carlo_var_analysis/monte_carlo_var.py            *)
(*              (one run per sample size)                                  *)
(* Floats are modelled as exact rationals plus the IEEE specials nan, +inf *)
(* and -inf; rounding is not modelled.  The global numpy generator is a    *)
(* deterministic state machine (a small LCG).                              *)
(***************************************************************************)
EXTENDS Integers, Sequences, FiniteSets, TLC

\* ------------------------------------------------------------ bounds
MaxLen == 2       \* longest sample-size sequence
MaxN == 2         \* largest sample size
MaxTrials == 2    \* largest num_trials
MaxSeed == 1      \* seeds 0..MaxSeed

\* ------------------------------------------------------------ floats
RECURSIVE Gcd(_, _)
Gcd(a, b) == IF b = 0 THEN a ELSE Gcd(b, a % b)

IAbs(x) == IF x < 0 THEN -x ELSE x

\* the finite float n/d, in lowest terms with d > 0
Rat(num, den) ==
    LET sgn == IF den < 0 THEN -1 ELSE 1
        g == Gcd(IAbs(num), IAbs(den))
    IN  [k |-> "fin", n |-> (sgn * num) \div g, d |-> (sgn * den) \div g]

FromInt(x) == [k |-> "fin", n |-> x, d |-> 1]
NaN == [k |-> "nan", n |-> 0, d |-> 1]
PInf == [k |-> "pinf", n |-> 0, d |-> 1]
NInf == [k |-> "ninf", n |-> 0, d |-> 1]

IsFin(x) == x.k = "fin"
Sign(x) == CASE x.k = "pinf" -> 1
             [] x.k = "ninf" -> -1
             [] x.k = "nan" -> 0
             [] OTHER -> IF x.n > 0 THEN 1 ELSE IF x.n < 0 THEN -1 ELSE 0

FNeg(x) == CASE x.k = "fin" -> [x EXCEPT !.n = -x.n]
             [] x.k = "pinf" -> NInf
             [] x.k = "ninf" -> PInf
             [] OTHER -> NaN

FAdd(x, y) ==
    CASE x.k = "nan" \/ y.k = "nan" -> NaN
      [] IsFin(x) /\ IsFin(y) -> Rat(x.n * y.d + y.n * x.d, x.d * y.d)
      [] IsFin(x) -> y
      [] IsFin(y) -> x
      [] OTHER -> IF x.k = y.k THEN x ELSE NaN

FSub(x, y) == FAdd(x, FNeg(y))

FMul(x, y) ==
    CASE x.k = "nan" \/ y.k = "nan" -> NaN
      [] IsFin(x) /\ IsFin(y) -> Rat(x.n * y.n, x.d * y.d)
      [] OTHER -> LET s == Sign(x) * Sign(y)
                  IN  IF s = 0 THEN NaN ELSE IF s > 0 THEN PInf ELSE NInf

\* numpy float division: x/0 is +-inf (nan for 0/0), with a warning only
FDiv(x, y) ==
    CASE x.k = "nan" \/ y.k = "nan" -> NaN
      [] IsFin(x) /\ IsFin(y) ->
            IF y.n # 0 THEN Rat(x.n * y.d, x.d * y.n)
            ELSE IF x.n = 0 THEN NaN ELSE IF x.n > 0 THEN PInf ELSE NInf
      [] IsFin(x) -> FromInt(0)
      [] IsFin(y) -> LET s == Sign(x) * (IF y.n < 0 THEN -1 ELSE 1)
                     IN  IF s > 0 THEN PInf ELSE NInf
      [] OTHER -> NaN

\* abs(x)
FAbsWrong(x) == x
FAbs(x) == CASE x.k = "fin" -> [x EXCEPT !.n = IAbs(x.n)]
             [] x.k = "nan" -> NaN
             [] OTHER -> PInf

\* x <= y on floats (false when either is nan)
FLeq(x, y) ==
    CASE x.k = "nan" \/ y.k = "nan" -> FALSE
      [] x.k = "ninf" \/ y.k = "pinf" -> TRUE
      [] x.k = "pinf" \/ y.k = "ninf" -> FALSE
      [] OTHER -> x.n * y.d <= y.n * x.d

RECURSIVE FSum(_)
FSum(s) == IF s = <<>> THEN FromInt(0) ELSE FAdd(Head(s), FSum(Tail(s)))

\* np.mean of a list: nan (RuntimeWarning) for the empty list
npMeanLast(s) == IF s = <<>> THEN NaN ELSE s[Len(s)]
npMeanWrong(s) == IF s = <<>> THEN NaN ELSE FDiv(FSum(s), FromInt(Len(s) + 1))
npMean(s) == IF s = <<>> THEN NaN ELSE FDiv(FSum(s), FromInt(Len(s)))

\* ------------------------------------------------------------ inputs
\* means and volatilities are whole numbers; a confidence level is a float
MuSet == {0, 1}
SigmaSet == {-1, 0, 1}
AlphaSet == {Rat(-1, 4), Rat(0, 1), Rat(1, 2), Rat(3, 4), Rat(1, 1), Rat(5, 4)}
SizeSeqs == UNION {[1..l -> 0..MaxN] : l \in 0..MaxLen}
Variants == {"single", "multi"}

VARIABLES
    mu, sigma, confidence_level, sample_sizes, num_trials,  \* the call's arguments
    variant,           \* which of the two scripts runs
    seed,              \* the generator state both runs start from
    emptyPercentile,   \* what this numpy release does for np.percentile([], p)
    rng,               \* the global numpy generator
    pc,                \* position in the script
    exc,               \* the exception that ended the run, or "none"
    analytical_var, estimated_vars, errors,   \* locals of the simulation
    it, n,             \* the outer loop: items taken so far, and the current one
    current_n_vars, current_n_errors,         \* locals of one outer iteration
    fitA, fitB,        \* outcome of the two np.polyfit calls of main
    run, prev,         \* 1 or 2; the first run's outcome once the second starts
    analyticalCalls,   \* history: calls of calculate_analytical_var in this run
    draws,             \* history: one entry per np.random.normal batch drawn
    trials,            \* history: one entry per completed trial
    entryN             \* history: the n whose trials each stored entry aggregates

vars == <<mu, sigma, confidence_level, sample_sizes, num_trials, variant, seed,
          emptyPercentile, rng, pc, exc, analytical_var, estimated_vars, errors, it, n,
          current_n_vars, current_n_errors, fitA, fitB, run, prev, analyticalCalls, draws,
          trials, entryN>>

inputs == <<mu, sigma, confidence_level, sample_sizes, num_trials, seed,
            emptyPercentile>>

\* ------------------------------------------------------------ library calls
\* standard normal quantiles at the confidence levels of AlphaSet
StdPpf(q) == CASE q = Rat(1, 4) -> Rat(-337, 500)
               [] q = Rat(3, 4) -> Rat(337, 500)
               [] OTHER -> FromInt(0)

\* scipy.stats.norm.ppf(q, loc, scale): nan for scale <= 0 or q outside [0,1],
\* -inf at q = 0, +inf at q = 1; never raises
norm_ppf(q, loc, scale) ==
    IF scale <= 0 THEN NaN
    ELSE IF q = FromInt(0) THEN NInf
    ELSE IF q = FromInt(1) THEN PInf
    ELSE IF FLeq(FromInt(0), q) /\ FLeq(q, FromInt(1))
    THEN FAdd(FMul(StdPpf(q), FromInt(scale)), FromInt(loc))
    ELSE NaN

calculate_analytical_var(m, s, cl) == norm_ppf(FSub(FromInt(1), cl), m, s)

\* the generator: one state step per standard normal variate
NextState(s) == (5 * s + 3) % 8
StdNormalHidden(s) == ((s + run) % 5) - 2
StdNormal(s) == (s % 5) - 2

RECURSIVE Variates(_, _, _, _)
Variates(s, m, sd, size) ==
    IF size = 0 THEN <<>>
    ELSE <<m + sd * StdNormal(s)>> \o Variates(NextState(s), m, sd, size - 1)

RECURSIVE Advance(_, _)
Advance(s, size) == IF size = 0 THEN s ELSE Advance(NextState(s), size - 1)

\* np.random.normal(mu, sigma, n): ValueError for sigma < 0, else n variates
np_random_normal(s, m, sd, size) ==
    IF sd < 0 THEN [exc |-> "ValueError", returns |-> <<>>, rng |-> s]
    ELSE [exc |-> "none", returns |-> Variates(s, m, sd, size),
          rng |-> Advance(s, size)]

RECURSIVE Insert(_, _)
Insert(x, s) ==
    IF s = <<>> THEN <<x>>
    ELSE IF x <= Head(s) THEN <<x>> \o s ELSE <<Head(s)>> \o Insert(x, Tail(s))

RECURSIVE Sorted(_)
Sorted(s) == IF s = <<>> THEN <<>> ELSE Insert(Head(s), Sorted(Tail(s)))

\* np.percentile(a, p), linear interpolation between the bracketing order
\* statistics.  p outside [0,100] raises ValueError before the data is read;
\* on an empty array the result depends on the numpy release: nan (with a
\* warning) or IndexError.
np_percentile(a, p) ==
    IF ~(FLeq(FromInt(0), p) /\ FLeq(p, FromInt(100)))
    THEN {[exc |-> "ValueError", val |-> NaN]}
    ELSE IF a = <<>>
    THEN {[exc |-> IF emptyPercentile = "nan" THEN "none" ELSE "IndexError",
           val |-> NaN]}
    ELSE LET srt == Sorted(a)
             v == FDiv(FMul(FromInt(Len(a) - 1), p), FromInt(100))
             lo == v.n \div v.d
             g == FSub(v, FromInt(lo))
             hi == IF lo + 1 < Len(a) THEN lo + 1 ELSE lo
             lerp == FAdd(FromInt(srt[lo + 1]),
                          FMul(FromInt(srt[hi + 1] - srt[lo + 1]), g))
         IN  {[exc |-> "none", val |-> lerp]}

\* one trial: draw, estimate, absolute error.  The set of possible outcomes.
Trial(s, m, sd, cl, size, av) ==
    LET d == np_random_normal(s, m, sd, size)
        percentile == FMul(FSub(FromInt(1), cl), FromInt(100))
    IN  IF d.exc # "none"
        THEN {[exc |-> d.exc, drawn |-> FALSE, rng |-> d.rng, est |-> NaN, err |-> NaN]}
        ELSE {[exc |-> o.exc, drawn |-> TRUE, rng |-> d.rng, est |-> o.val,
               err |-> FAbs(FSub(o.val, av))] : o \in np_percentile(d.returns, percentile)}

\* ------------------------------------------------------------ the scripts
NoFit == [exc |-> "unset", finite |-> FALSE, rank |-> 0]
NoPrev == [pc |-> "unset"]

Init ==
    /\ mu \in MuSet
    /\ sigma \in SigmaSet
    /\ confidence_level \in AlphaSet
    /\ sample_sizes \in SizeSeqs
    /\ variant \in Variants
    /\ num_trials \in IF variant = "single" THEN {1} ELSE 0..MaxTrials
    /\ seed \in 0..MaxSeed
    /\ emptyPercentile \in IF \E k \in DOMAIN sample_sizes : sample_sizes[k] = 0
                            THEN {"nan", "IndexError"} ELSE {"nan"}
    /\ rng = seed
    /\ pc = "entry"
    /\ exc = "none"
    /\ analytical_var = NaN
    /\ estimated_vars = <<>>
    /\ errors = <<>>
    /\ it = 0
    /\ n = 0
    /\ current_n_vars = <<>>
    /\ current_n_errors = <<>>
    /\ fitA = NoFit
    /\ fitB = NoFit
    /\ run = 1
    /\ prev = NoPrev
    /\ analyticalCalls = 0
    /\ draws = <<>>
    /\ trials = <<>>
    /\ entryN = <<>>

\* `for _ in range(num_trials)`: is there another pass after `done` passes
MoreTrialsWrong(done) == done <= num_trials
MoreTrials(done) == done < num_trials

\* list.append
StoreWrong(lst, v) == <<v>> \o lst
Store(lst, v) == Append(lst, v)

\* analytical_var = calculate_analytical_var(...); the two result lists start empty
Enter ==
    /\ pc = "entry"
    /\ analytical_var' = calculate_analytical_var(mu, sigma, confidence_level)
    /\ analyticalCalls' = analyticalCalls + 1
    /\ estimated_vars' = <<>>
    /\ errors' = <<>>
    /\ pc' = "loop"
    /\ UNCHANGED <<inputs, variant, rng, exc, it, n, current_n_vars, current_n_errors,
                   fitA, fitB, run, prev, draws, trials, entryN>>

\* multi: `for n in sample_sizes:` takes the next n and empties the trial lists
OuterNext ==
    /\ pc = "loop"
    /\ variant = "multi"
    /\ it < Len(sample_sizes)
    /\ it' = it + 1
    /\ n' = sample_sizes[it + 1]
    /\ current_n_vars' = <<>>
    /\ current_n_errors' = <<>>
    /\ pc' = "trials"
    /\ UNCHANGED <<inputs, variant, rng, exc, analytical_var, estimated_vars, errors,
                   fitA, fitB, run, prev, analyticalCalls, draws, trials, entryN>>

\* multi: one pass of `for _ in range(num_trials):`
InnerTrial ==
    /\ pc = "trials"
    /\ MoreTrials(Len(current_n_vars))
    /\ \E o \in Trial(rng, mu, sigma, confidence_level, n, analytical_var) :
        /\ rng' = o.rng
        /\ draws' = IF o.drawn THEN Append(draws, [idx |-> it, n |-> n]) ELSE draws
        /\ IF o.exc = "none"
           THEN /\ current_n_vars' = Store(current_n_vars, o.est)
                /\ current_n_errors' = Store(current_n_errors, o.err)
                /\ trials' = Append(trials, [idx |-> it, est |-> o.est, err |-> o.err])
                /\ UNCHANGED <<pc, exc>>
           ELSE /\ pc' = "raised"
                /\ exc' = o.exc
                /\ UNCHANGED <<current_n_vars, current_n_errors, trials>>
    /\ UNCHANGED <<inputs, variant, analytical_var, estimated_vars, errors, it, n,
                   fitA, fitB, run, prev, analyticalCalls, entryN>>

\* multi: "Store averages" once the trials of this n are done
StoreAverages ==
    /\ pc = "trials"
    /\ ~MoreTrials(Len(current_n_vars))
    /\ estimated_vars' = Store(estimated_vars, npMean(current_n_vars))
    /\ errors' = Store(errors, npMean(current_n_errors))
    /\ entryN' = Store(entryN, n)
    /\ pc' = "loop"
    /\ UNCHANGED <<inputs, variant, rng, exc, analytical_var, it, n, current_n_vars,
                   current_n_errors, fitA, fitB, run, prev, analyticalCalls,
                   draws, trials>>

\* single: one pass of `for n in sample_sizes:`
SingleIteration ==
    /\ pc = "loop"
    /\ variant = "single"
    /\ it < Len(sample_sizes)
    /\ it' = it + 1
    /\ n' = sample_sizes[it + 1]
    /\ \E o \in Trial(rng, mu, sigma, confidence_level, n', analytical_var) :
        /\ rng' = o.rng
        /\ draws' = IF o.drawn THEN Append(draws, [idx |-> it', n |-> n']) ELSE draws
        /\ IF o.exc = "none"
           THEN /\ estimated_vars' = Store(estimated_vars, o.est)
                /\ errors' = Store(errors, o.err)
                /\ trials' = Append(trials, [idx |-> it', est |-> o.est, err |-> o.err])
                /\ entryN' = Store(entryN, n')
                /\ UNCHANGED <<pc, exc>>
           ELSE /\ pc' = "raised"
                /\ exc' = o.exc
                /\ UNCHANGED <<estimated_vars, errors, trials, entryN>>
    /\ UNCHANGED <<inputs, variant, analytical_var, current_n_vars, current_n_errors,
                   fitA, fitB, run, prev, analyticalCalls>>

\* return analytical_var, estimated_vars, errors
Return ==
    /\ pc = "loop"
    /\ it >= Len(sample_sizes)
    /\ pc' = "returned"
    /\ UNCHANGED <<inputs, variant, rng, exc, analytical_var, estimated_vars, errors,
                   it, n, current_n_vars, current_n_errors, fitA, fitB, run, prev,
                   analyticalCalls, draws, trials, entryN>>

\* ------------------------------------------------------------ main's fits
\* np.log of a float.  A positive finite x gives the finite value ln(x), kept
\* as the term [k |-> "log"] over x; 0 gives -inf and a negative x gives nan,
\* each with a RuntimeWarning only.
np_log(x) ==
    CASE x.k = "nan" \/ x.k = "ninf" -> NaN
      [] x.k = "pinf" -> PInf
      [] x.n = 0 -> NInf
      [] x.n < 0 -> NaN
      [] OTHER -> [k |-> "log", n |-> x.n, d |-> x.d]

IsFinite(v) == v.k \in {"fin", "log"}
IsZero(v) == \/ v.k = "fin" /\ v.n = 0
             \/ v.k = "log" /\ v.n = v.d

Values(s) == {s[j] : j \in 1..Len(s)}

\* np.polyfit(x, y, 1): TypeError on an empty x; otherwise the columns of the
\* Vandermonde matrix are scaled by their norms and handed to lstsq, which
\* returns the minimum-norm solution whatever the rank (a rank below 2 only
\* warns).  A nan or inf in the data, or an all-zero x column (scale 0), puts
\* nan into lstsq: depending on the LAPACK build that raises LinAlgError or
\* returns nan coefficients.
np_polyfit(x, y) ==
    IF x = <<>>
    THEN {[exc |-> "TypeError", finite |-> FALSE, rank |-> 0]}
    ELSE IF \/ \E v \in Values(x) \cup Values(y) : ~IsFinite(v)
            \/ \A v \in Values(x) : IsZero(v)
    THEN {[exc |-> "LinAlgError", finite |-> FALSE, rank |-> 0],
          [exc |-> "none", finite |-> FALSE, rank |-> 0]}
    ELSE {[exc |-> "none", finite |-> TRUE,
           rank |-> IF Cardinality(Values(x)) >= 2 THEN 2 ELSE 1]}

log_N == [j \in DOMAIN sample_sizes |-> np_log(FromInt(sample_sizes[j]))]
log_Err == [j \in DOMAIN errors |-> np_log(errors[j])]
InvSquare(e) == FDiv(FromInt(1), FMul(e, e))
inv_squared_errors == [j \in DOMAIN errors |-> InvSquare(errors[j])]

\* slope, intercept = np.polyfit(log_N, log_Err, 1)
PowerLawFit ==
    /\ pc = "returned"
    /\ run = 1
    /\ \E o \in np_polyfit(log_N, log_Err) :
        /\ fitA' = o
        /\ exc' = o.exc
        /\ pc' = IF o.exc = "none" THEN "fittedA" ELSE "main_raised"
    /\ UNCHANGED <<inputs, variant, rng, analytical_var, estimated_vars, errors,
                   it, n, current_n_vars, current_n_errors, fitB, run, prev,
                   analyticalCalls, draws, trials, entryN>>

\* multi only: m, c = np.polyfit(inv_squared_errors, sample_sizes, 1)
LinearFit ==
    /\ pc = "fittedA"
    /\ variant = "multi"
    /\ \E o \in np_polyfit(inv_squared_errors,
                          [j \in DOMAIN sample_sizes |-> FromInt(sample_sizes[j])]) :
        /\ fitB' = o
        /\ exc' = o.exc
        /\ pc' = IF o.exc = "none" THEN "fittedB" ELSE "main_raised"
    /\ UNCHANGED <<inputs, variant, rng, analytical_var, estimated_vars, errors,
                   it, n, current_n_vars, current_n_errors, fitA, run, prev,
                   analyticalCalls, draws, trials, entryN>>

\* ------------------------------------------------------------ a second run
\* The simulation is called again with the same arguments after the global
\* generator is put back to the state the first run started from.  With one
\* trial per sample size the second run may be the other script.
Rerun ==
    /\ run = 1
    /\ pc \in {"returned", "raised"}
    /\ prev' = [pc |-> pc, exc |-> exc, variant |-> variant, rng |-> rng,
                analytical_var |-> analytical_var, estimated_vars |-> estimated_vars,
                errors |-> errors, draws |-> draws]
    /\ run' = 2
    /\ variant' \in IF num_trials = 1 THEN Variants ELSE {variant}
    /\ rng' = seed
    /\ pc' = "entry"
    /\ exc' = "none"
    /\ analytical_var' = NaN
    /\ estimated_vars' = <<>>
    /\ errors' = <<>>
    /\ it' = 0
    /\ n' = 0
    /\ current_n_vars' = <<>>
    /\ current_n_errors' = <<>>
    /\ analyticalCalls' = 0
    /\ draws' = <<>>
    /\ trials' = <<>>
    /\ entryN' = <<>>
    /\ UNCHANGED <<inputs, fitA, fitB>>

Next ==
    \/ Enter
    \/ OuterNext
    \/ InnerTrial
    \/ StoreAverages
    \/ SingleIteration
    \/ Return
    \/ PowerLawFit
    \/ LinearFit
    \/ Rerun

Spec == Init /\ [][Next]_vars

\* ------------------------------------------------------------ properties
InSimulation == pc \in {"entry", "loop", "trials"}
Returned == pc \in {"returned", "fittedA", "fittedB", "main_raised"}
\* the spec's error names are not Python's: any exception counts as failing
Failed(e) == e \notin {"none", "unset"}
ValidParams == /\ sigma > 0
               /\ FLeq(FromInt(0), confidence_level) /\ confidence_level # FromInt(0)
               /\ FLeq(confidence_level, FromInt(1)) /\ confidence_level # FromInt(1)
TrialsOf(k) == SelectSeq(trials, LAMBDA t : t.idx = k)
Ests(k) == [j \in 1..Len(TrialsOf(k)) |-> TrialsOf(k)[j].est]
Errs(k) == [j \in 1..Len(TrialsOf(k)) |-> TrialsOf(k)[j].err]
AllFin(q) == \A j \in 1..Len(q) : IsFin(q[j])

\* C1: the estimated-VaR list and the error list always have one entry per
\* completed outer iteration, entry k aggregates the trials of sample size k
\* (drawn with that size), and on return both are as long as sample_sizes.
C1_ParallelResults ==
    /\ Len(estimated_vars) = Len(errors)
    /\ Len(entryN) = Len(estimated_vars)
    /\ Len(estimated_vars) <= Len(sample_sizes)
    /\ \A k \in 1..Len(entryN) : entryN[k] = sample_sizes[k]
    /\ \A j \in 1..Len(draws) : draws[j].n = sample_sizes[draws[j].idx]
    /\ pc = "loop" => Len(estimated_vars) = it
    /\ Returned => Len(estimated_vars) = Len(sample_sizes)

C1_Witness ==
    /\ pc = "returned"
    /\ variant = "multi"
    /\ num_trials = 2
    /\ Len(sample_sizes) = 2
    /\ sample_sizes[1] # sample_sizes[2]
    /\ Len(estimated_vars) = 2

\* C2: with a confidence level outside (0,1) or sigma <= 0 the run fails at
\* once: the analytical calculator returns nothing (the run never gets past
\* it), no sample is drawn and the simulation returns nothing.
C2_InvalidParameterFails ==
    ~ValidParams =>
        /\ draws = <<>>
        /\ \/ pc = "entry"
           \/ pc = "raised" /\ Failed(exc) /\ analyticalCalls = 0

\* C3: with valid parameters, a sample size below 2 anywhere in the sequence
\* makes the run fail and return nothing; with every size at least 2 the
\* estimator does not raise.  (Stated for sequences without a 0: what an
\* empty sample does depends on the numpy release.)
C3_SmallSampleSizeFails ==
    (ValidParams /\ \A k \in DOMAIN sample_sizes : sample_sizes[k] # 0) =>
        IF \E k \in DOMAIN sample_sizes : sample_sizes[k] < 2
        THEN ~Returned
        ELSE pc # "raised"

\* C4: a zero or negative entry of the error list makes the power-law fit
\* fail: it yields no slope or intercept, so no -inf/nan reaches the result.
C4_NonPositiveErrorFails ==
    (/\ fitA.exc # "unset"
     /\ \E k \in DOMAIN errors : IsFin(errors[k]) /\ errors[k].n <= 0)
        => Failed(fitA.exc)

C6_MeansOfTrials ==
    (variant = "multi" /\ num_trials >= 1) =>
        /\ \A k \in 1..Len(estimated_vars) :
            /\ Len(TrialsOf(k)) = num_trials
            /\ IF AllFin(Ests(k))
               THEN FMul(estimated_vars[k], FromInt(num_trials)) = FSum(Ests(k))
               ELSE ~IsFin(estimated_vars[k])
            /\ IF AllFin(Errs(k))
               THEN FMul(errors[k], FromInt(num_trials)) = FSum(Errs(k))
               ELSE ~IsFin(errors[k])
        /\ \A j \in 1..Len(trials) :
            (IsFin(trials[j].est) /\ IsFin(analytical_var)) =>
                /\ FLeq(FromInt(0), trials[j].err)
                /\ \/ trials[j].err = FSub(trials[j].est, analytical_var)
                   \/ trials[j].err = FSub(analytical_var, trials[j].est)

C6_Witness ==
    /\ pc = "returned"
    /\ variant = "multi"
    /\ num_trials = 2
    /\ Len(estimated_vars) = 2
    /\ AllFin(estimated_vars) /\ AllFin(errors)
    /\ Ests(1)[1] # Ests(1)[2]
    /\ Errs(1)[1] # Errs(1)[2]

\* C7: with one trial per sample size the multi-trial script and the
\* single-run script, started from the same generator state with the same
\* arguments, end the same way: same draws in the same order, same final
\* generator state, same analytical VaR, same estimates and same errors.
C7_OneTrialIsSingleRun ==
    (run = 2 /\ prev.variant # variant /\ pc \in {"returned", "raised"}) =>
        /\ num_trials = 1
        /\ pc = prev.pc
        /\ exc = prev.exc
        /\ draws = prev.draws
        /\ rng = prev.rng
        /\ analytical_var = prev.analytical_var
        /\ estimated_vars = prev.estimated_vars
        /\ errors = prev.errors

C7_Witness ==
    /\ run = 2
    /\ prev.variant = "multi"
    /\ variant = "single"
    /\ pc = "returned"
    /\ Len(estimated_vars) = 2
    /\ sample_sizes[1] = 2
    /\ AllFin(errors)
    /\ estimated_vars[1] # estimated_vars[2]

PerSize == IF variant = "multi" THEN num_trials ELSE 1
StepsLeft ==
    CASE pc = "entry" -> (Len(sample_sizes) - it) * (PerSize + 2) + 2
      [] pc = "loop" -> (Len(sample_sizes) - it) * (PerSize + 2) + 1
      [] pc = "trials" -> (Len(sample_sizes) - it) * (PerSize + 2)
                          + (PerSize - Len(current_n_vars)) + 2
      [] OTHER -> 0
C9_Schedule ==
    /\ analyticalCalls <= 1
    /\ (pc # "entry" \/ draws # <<>>) => analyticalCalls = 1
    /\ \A j \in 1..Len(draws) :
        /\ PerSize > 0
        /\ draws[j].idx = ((j - 1) \div PerSize) + 1
        /\ draws[j].n = sample_sizes[draws[j].idx]
    /\ Returned => Len(draws) = Len(sample_sizes) * PerSize
    /\ InSimulation => StepsLeft > 0
C9_SinglePass ==
    [](C9_Schedule) /\ [][InSimulation => StepsLeft' < StepsLeft]_vars

C9_Witness ==
    /\ pc = "returned"
    /\ variant = "multi"
    /\ num_trials = 2
    /\ Len(sample_sizes) = 2
    /\ Len(draws) = 4
    /\ ValidParams

====
